---- MODULE Spec2Model ----
(***************************************************************************)
(* Validation, linting and dataset assembly of the mumbl language system:  *)
(* the manifest linter (mumbl_dataset_builder/lints.py), the TTS snapshot  *)
(* builder (mumbl_dataset_builder/build_tts.py) with its command line      *)
(* (tools/dataset_build.py), and the format guardians                      *)
(* (mumbl_format_guardians/validate_*.py, common.py) with the contracts    *)
(* they validate against (mumbl_data_contracts/segments.py, profiles.py).  *)
(*                                                                         *)
(* Conventions.  A Python dict read with .get is a record of options:      *)
(* [some |-> FALSE, ...] is an absent key (.get gives None), [some |->     *)
(* TRUE, v |-> x] a present one.  Seconds are counted in tenths (1.5 s is  *)
(* 15), so every float of the model has one decimal.  Text that Python     *)
(* builds with f-strings or json.dumps is built here as the same string.   *)
(***************************************************************************)
EXTENDS Integers, Sequences, FiniteSets, TLC

VARIABLES
    tool,     \* the function that runs: "lint", "audio", "text", "scores", "profile", or "none"
    input,    \* its argument: manifest rows, CSV rows with their files, lines, or a profile string
    pc,       \* where the run stands: "called", "loop", "returned", "raised", and, the
              \* command line done, "exited" or "exited_after_raise"
    idx,      \* rows or lines its loop has done
    ok,       \* lint_tts_manifest: local ok (lints.py:15)
    issues,   \* lint_tts_manifest: local issues (lints.py:16)
    rep,      \* the format guardians: local rep, a ValidationReport
    files,    \* the output directory of the dataset builder
    before,   \* the output directory as the last dataset-build call found it
    call,     \* the last dataset-build call: its arguments
    outcome,  \* the last dataset-build call: what build_tts_snapshot did
    exit,     \* the last dataset-build call: what the process did
    nbuilds   \* dataset-build calls so far

vars == <<tool, input, pc, idx, ok, issues, rep, files, before, call, outcome, exit, nbuilds>>

runVars == <<tool, input, pc, idx, ok, issues, rep>>

buildVars == <<files, before, call, outcome, exit, nbuilds>>

----------------------------------------------------------------------------
(* Bounds of the model. *)

\* longest manifest given to the linter on its own
MaxRows == 2

\* most data rows of a CSV given to the audio validator
MaxCsvRows == 2

\* most lines of a JSONL file given to the text or the scores validator
MaxLines == 2

\* longest manifest given to the dataset builder
MaxBuildRows == 2

\* dataset-build calls in one behaviour
MaxBuilds == 2

----------------------------------------------------------------------------
(* Values. *)

NoneStr == [some |-> FALSE, v |-> ""]

NoneNum == [some |-> FALSE, v |-> 0]

Some(x) == [some |-> TRUE, v |-> x]

\* Python truthiness of r.get(k) for a string-valued key
Truthy(o) == o.some /\ o.v # ""

\* str() of a float counted in tenths: 141 is "14.1", 0 is "0.0"
FloatStr(d) == ToString(d \div 10) \o "." \o ToString(d % 10)

\* str() of r.get(k) for a string-valued key: None prints as "None"
StrOf(o) == IF o.some THEN o.v ELSE "None"

RECURSIVE SumSeq(_)
SumSeq(s) == IF s = <<>> THEN 0 ELSE Head(s) + SumSeq(Tail(s))

Range(s) == {s[i] : i \in 1..Len(s)}

\* the sequences without repetition that enumerate a set: list(set)
ListsOf(S) ==
    {s \in [1..Cardinality(S) -> S] : Range(s) = S}

SeqsUpTo(S, n) == UNION {[1..k -> S] : k \in 0..n}

----------------------------------------------------------------------------
(* lints.py *)

\* 1.5 s, in tenths
LINT_MIN_S == 15

\* 14.0 s, in tenths
LINT_MAX_S == 140

LintIssue(code, msg) == [code |-> code, msg |-> msg]

LintReport(o, i) == [ok |-> o, issues |-> i]

\* srs = {r.get("sample_rate") for r in rows}
SampleRateSet(rs) == {rs[i].sample_rate : i \in 1..Len(rs)}

\* mutant: the mix reported once for every row
MixCheck_PerRow(rs) ==
    IF Cardinality(SampleRateSet(rs)) > 1
    THEN LintReport(FALSE,
                    [i \in 1..Len(rs) |->
                        LintIssue("SAMPLE_RATE_MIX", "Multiple sample rates detected")])
    ELSE LintReport(TRUE, <<>>)

\* lints.py:19-20, the state after the sample-rate check
MixCheck(rs) ==
    IF Cardinality(SampleRateSet(rs)) > 1
    THEN LintReport(FALSE, <<LintIssue("SAMPLE_RATE_MIX", "Multiple sample rates detected")>>)
    ELSE LintReport(TRUE, <<>>)

\* dur = float(r.get("duration_s", 0))
DurOf(r) == IF r.duration_s.some THEN r.duration_s.v ELSE 0

\* mutant: the bounds taken as exclusive
DurationBad_Exclusive(r) == ~(LINT_MIN_S < DurOf(r) /\ DurOf(r) < LINT_MAX_S)

DurationBad(r) == ~(LINT_MIN_S <= DurOf(r) /\ DurOf(r) <= LINT_MAX_S)

NoTextOrPhonemes(r) == ~Truthy(r.text) /\ ~Truthy(r.phonemes)

DurationIssue(r) ==
    LintIssue("DURATION",
              StrOf(r.wav) \o " duration " \o FloatStr(DurOf(r)) \o " out of bounds")

TextIssue(r) ==
    LintIssue("NO_TEXT_OR_PHONEMES", StrOf(r.wav) \o " missing text/phonemes")

\* mutant: the text check skipped once the duration check has failed
RowCheck_ShortCircuit(st, r) ==
    IF DurationBad(r)
    THEN LintReport(FALSE, Append(st.issues, DurationIssue(r)))
    ELSE IF NoTextOrPhonemes(r)
    THEN LintReport(FALSE, Append(st.issues, TextIssue(r)))
    ELSE st

\* mutant: the text check made before the duration check
RowCheck_TextFirst(st, r) ==
    LET a == IF NoTextOrPhonemes(r)
             THEN LintReport(FALSE, Append(st.issues, TextIssue(r)))
             ELSE st
    IN  IF DurationBad(r)
        THEN LintReport(FALSE, Append(a.issues, DurationIssue(r)))
        ELSE a

\* lints.py:22-26, one turn of the loop over the rows
RowCheck(st, r) ==
    LET a == IF DurationBad(r)
             THEN LintReport(FALSE, Append(st.issues, DurationIssue(r)))
             ELSE st
    IN  IF NoTextOrPhonemes(r)
        THEN LintReport(FALSE, Append(a.issues, TextIssue(r)))
        ELSE a

RECURSIVE RowChecks(_, _)
RowChecks(st, rs) ==
    IF rs = <<>> THEN st ELSE RowChecks(RowCheck(st, Head(rs)), Tail(rs))

\* lints.py:14-27 as a function of its argument
lint_tts_manifest(rs) == RowChecks(MixCheck(rs), rs)

----------------------------------------------------------------------------
(* build_tts.py *)

OutDir == "out"

\* os.path.join(out_dir, name)
PathJoin(dir, name) == dir \o "/" \o name

JsonStr(s) == "\"" \o s \o "\""

JsonPair(k, v) == JsonStr(k) \o ": " \o v

\* the "key": value pairs of a row, absent keys left out
JsonPairs(r) ==
    (IF r.wav.some THEN <<JsonPair("wav", JsonStr(r.wav.v))>> ELSE <<>>)
    \o (IF r.sample_rate.some
        THEN <<JsonPair("sample_rate", ToString(r.sample_rate.v))>> ELSE <<>>)
    \o (IF r.duration_s.some
        THEN <<JsonPair("duration_s", FloatStr(r.duration_s.v))>> ELSE <<>>)
    \o (IF r.text.some THEN <<JsonPair("text", JsonStr(r.text.v))>> ELSE <<>>)
    \o (IF r.phonemes.some
        THEN <<JsonPair("phonemes", JsonStr(r.phonemes.v))>> ELSE <<>>)
    \o (IF r.speaker_id.some
        THEN <<JsonPair("speaker_id", JsonStr(r.speaker_id.v))>> ELSE <<>>)

RECURSIVE JoinWith(_, _)
JoinWith(sep, s) ==
    IF s = <<>> THEN ""
    ELSE IF Len(s) = 1 THEN s[1]
    ELSE s[1] \o sep \o JoinWith(sep, Tail(s))

\* json.dumps(r, ensure_ascii=False)
JsonDumps(r) == "{" \o JoinWith(", ", JsonPairs(r)) \o "}"

NoFile == [exists |-> FALSE, data |-> <<>>]

File(d) == [exists |-> TRUE, data |-> d]

NoCard == [exists |-> FALSE, clips |-> 0, sample_rate |-> <<>>, minutes |-> [num |-> 0, den |-> 1]]

EmptyDir == [manifest |-> NoFile, metadata |-> NoFile, card |-> NoCard, clips_dir |-> FALSE]

\* mutant: the manifest opened in append mode
write_manifest_jsonl_Append(old, rs) ==
    File(old.data \o [i \in 1..Len(rs) |-> JsonDumps(rs[i])])

\* build_tts.py:17-22: open(path, "w") and one line per row
write_manifest_jsonl(old, rs) == File([i \in 1..Len(rs) |-> JsonDumps(rs[i])])

\* mutant: None written as its repr
CsvField_Repr(o) == IF o.some THEN o.v ELSE "None"

\* csv.writer turns None into the empty field
CsvField(o) == IF o.some THEN o.v ELSE ""

\* mutant: the use_phonemes flag ignored
CsvRecord_TextOnly(r, use_phonemes) ==
    <<r.wav.v,
      IF r.text.some THEN r.text.v ELSE "",
      IF r.speaker_id.some THEN r.speaker_id.v ELSE "spk_unknown">>

\* build_tts.py:11-14, the record of one row; the row has a wav key
CsvRecord(r, use_phonemes) ==
    <<r.wav.v,
      IF use_phonemes THEN CsvField(r.phonemes)
      ELSE (IF r.text.some THEN r.text.v ELSE ""),
      IF r.speaker_id.some THEN r.speaker_id.v ELSE "spk_unknown">>

\* rows before the first one whose r["wav"] raises KeyError
RECURSIVE WavPrefix(_)
WavPrefix(rs) ==
    IF rs = <<>> \/ ~Head(rs).wav.some THEN <<>>
    ELSE <<Head(rs)>> \o WavPrefix(Tail(rs))

\* mutant: metadata.csv opened in append mode
build_metadata_csv_Append(old, rs, use_phonemes) ==
    File(old.data \o [i \in 1..Len(WavPrefix(rs)) |-> CsvRecord(WavPrefix(rs)[i], use_phonemes)])

\* build_tts.py:5-15: open(csv_path, "w"), records up to a KeyError
build_metadata_csv(old, rs, use_phonemes) ==
    LET done == WavPrefix(rs)
    IN  File([i \in 1..Len(done) |-> CsvRecord(done[i], use_phonemes)])

\* mutant: the total duration left in seconds
Stats_Seconds(rs, srlist) ==
    [exists |-> TRUE,
     clips |-> Len(rs),
     sample_rate |-> srlist,
     minutes |-> [num |-> SumSeq([i \in 1..Len(rs) |-> rs[i].duration_s.v]), den |-> 10]]

\* build_tts.py:38-42 once the order of list({...}) is chosen
Stats(rs, srlist) ==
    [exists |-> TRUE,
     clips |-> Len(rs),
     sample_rate |-> srlist,
     minutes |-> [num |-> SumSeq([i \in 1..Len(rs) |-> rs[i].duration_s.v]), den |-> 600]]

AllHave(rs, k) == \A i \in 1..Len(rs) : rs[i][k].some

\* mutant: the file names returned without the output directory
Paths_Basenames(dir) ==
    [manifest |-> "manifest.jsonl",
     metadata_csv |-> "metadata.csv",
     dataset_card |-> "dataset_card.json"]

\* build_tts.py:44, the dict returned
Paths(dir) ==
    [manifest |-> PathJoin(dir, "manifest.jsonl"),
     metadata_csv |-> PathJoin(dir, "metadata.csv"),
     dataset_card |-> PathJoin(dir, "dataset_card.json")]

NoPaths == [manifest |-> "", metadata_csv |-> "", dataset_card |-> ""]

\* build_tts.py:33: f"[{i.code}] {i.msg}"
IssueLine(i) == "[" \o i.code \o "] " \o i.msg

\* mutant: only the first issue reported
LintFailure_FirstOnly(lint) ==
    <<"Dataset lints failed:">> \o <<IssueLine(lint.issues[1])>>

\* build_tts.py:33-34: the text of the SystemExit, as its lines
LintFailure(lint) ==
    <<"Dataset lints failed:">> \o [i \in 1..Len(lint.issues) |-> IssueLine(lint.issues[i])]

Raised(kind, text) == [kind |-> kind, text |-> text, paths |-> NoPaths]

Returned(p) == [kind |-> "returned", text |-> <<>>, paths |-> p]

NotCalled == [kind |-> "none", text |-> <<>>, paths |-> NoPaths]

\* build_tts.py:25-28
write_dataset_card(old, stats) == stats

\* the values of r["sample_rate"] over the rows that have the key
SampleRateValues(rs) ==
    {rs[i].sample_rate.v : i \in {j \in 1..Len(rs) : rs[j].sample_rate.some}}

\* mutant: the lint report looked at after the manifest is written
build_tts_snapshot_WriteFirst(fs, dir, rs, use_phonemes, srlist) ==
    LET lint == lint_tts_manifest(rs)
        f1 == [fs EXCEPT !.manifest = write_manifest_jsonl(fs.manifest, rs)]
        f2 == [f1 EXCEPT !.metadata = build_metadata_csv(f1.metadata, rs, use_phonemes),
                         !.clips_dir = TRUE]
        f3 == [f2 EXCEPT !.card = write_dataset_card(f2.card, Stats(rs, srlist))]
    IN  IF ~lint.ok
        THEN [files |-> f1, outcome |-> Raised("SystemExit", LintFailure(lint))]
        ELSE IF ~AllHave(rs, "wav")
        THEN [files |-> f2, outcome |-> Raised("KeyError", <<"'wav'">>)]
        ELSE IF ~AllHave(rs, "sample_rate")
        THEN [files |-> f2, outcome |-> Raised("KeyError", <<"'sample_rate'">>)]
        ELSE IF ~AllHave(rs, "duration_s")
        THEN [files |-> f2, outcome |-> Raised("KeyError", <<"'duration_s'">>)]
        ELSE [files |-> f3, outcome |-> Returned(Paths(dir))]

\* build_tts.py:30-44: the directory and the outcome of one call; srlist is the
\* order list({...}) gives the distinct sample rates (build_tts.py:40)
build_tts_snapshot(fs, dir, rs, use_phonemes, srlist) ==
    LET lint == lint_tts_manifest(rs)
        f1 == [fs EXCEPT !.manifest = write_manifest_jsonl(fs.manifest, rs)]
        f2 == [f1 EXCEPT !.metadata = build_metadata_csv(f1.metadata, rs, use_phonemes),
                         !.clips_dir = TRUE]
        f3 == [f2 EXCEPT !.card = write_dataset_card(f2.card, Stats(rs, srlist))]
    IN  IF ~lint.ok
        THEN [files |-> fs, outcome |-> Raised("SystemExit", LintFailure(lint))]
        ELSE IF ~AllHave(rs, "wav")
        THEN [files |-> f2, outcome |-> Raised("KeyError", <<"'wav'">>)]
        ELSE IF ~AllHave(rs, "sample_rate")
        THEN [files |-> f2, outcome |-> Raised("KeyError", <<"'sample_rate'">>)]
        ELSE IF ~AllHave(rs, "duration_s")
        THEN [files |-> f2, outcome |-> Raised("KeyError", <<"'duration_s'">>)]
        ELSE [files |-> f3, outcome |-> Returned(Paths(dir))]

----------------------------------------------------------------------------
(* mumbl_format_guardians/common.py *)

ValidationIssue(code, message, path) == [code |-> code, message |-> message, path |-> path]

ValidationReport(o, c, e) == [ok |-> o, checked |-> c, errors |-> e]

\* mutant: the issue recorded with ok left as it was
fail_KeepsOk(r, code, message, path) ==
    [r EXCEPT !.errors = Append(@, ValidationIssue(code, message, path))]

\* common.py:16-18
fail(r, code, message, path) ==
    [r EXCEPT !.ok = FALSE, !.errors = Append(@, ValidationIssue(code, message, path))]

----------------------------------------------------------------------------
(* mumbl_format_guardians/validate_audio.py *)

TARGET_SR == {22050, 24000}

\* 1.5 s, in tenths
MIN_S == 15

\* 14.0 s, in tenths
MAX_S == 140

ClipsDir == "clips_dir"

\* os.path.basename on the names of the model
Basename(rel) ==
    CASE rel = "clips/a.wav" -> "a.wav"
      [] rel = "sub/b.wav" -> "b.wav"
      [] OTHER -> rel

\* f"line {i}"
LineTag(i) == "line " \o ToString(i)

\* f"{dur:.2f}" of a float counted in tenths
FloatStr2(d) == FloatStr(d) \o "0"

\* mutant: the four constraints chained with elif
AudioChecks_FirstOnly(r, wav, m, path) ==
    LET r1 == IF m.sr \notin TARGET_SR
              THEN fail(r, "SR",
                        wav \o ": sample rate " \o ToString(m.sr) \o " not in {24000, 22050}", path)
              ELSE IF m.ch # 1
              THEN fail(r, "CHANNELS", wav \o ": channels " \o ToString(m.ch) \o " != 1", path)
              ELSE IF ~(MIN_S <= m.dur /\ m.dur <= MAX_S)
              THEN fail(r, "DURATION",
                        wav \o ": duration " \o FloatStr2(m.dur) \o "s outside [1.5,14.0]", path)
              ELSE IF m.sw # 2
              THEN fail(r, "BIT_DEPTH", wav \o ": must be 16-bit PCM (sampwidth=2)", path)
              ELSE r
    IN  [r1 EXCEPT !.checked = @ + 1]

\* mutant: checked incremented only for a row that recorded no issue
AudioChecks_CountsClean(r, wav, m, path) ==
    LET r1 == IF m.sr \notin TARGET_SR
              THEN fail(r, "SR",
                        wav \o ": sample rate " \o ToString(m.sr) \o " not in {24000, 22050}", path)
              ELSE r
        r2 == IF m.ch # 1
              THEN fail(r1, "CHANNELS", wav \o ": channels " \o ToString(m.ch) \o " != 1", path)
              ELSE r1
        r3 == IF ~(MIN_S <= m.dur /\ m.dur <= MAX_S)
              THEN fail(r2, "DURATION",
                        wav \o ": duration " \o FloatStr2(m.dur) \o "s outside [1.5,14.0]", path)
              ELSE r2
        r4 == IF m.sw # 2
              THEN fail(r3, "BIT_DEPTH", wav \o ": must be 16-bit PCM (sampwidth=2)", path)
              ELSE r3
    IN  IF Len(r4.errors) = Len(r.errors) THEN [r4 EXCEPT !.checked = @ + 1] ELSE r4

\* validate_audio.py:35-43, a row whose WAV file was read
AudioChecks(r, wav, m, path) ==
    LET r1 == IF m.sr \notin TARGET_SR
              THEN fail(r, "SR",
                        wav \o ": sample rate " \o ToString(m.sr) \o " not in {24000, 22050}", path)
              ELSE r
        r2 == IF m.ch # 1
              THEN fail(r1, "CHANNELS", wav \o ": channels " \o ToString(m.ch) \o " != 1", path)
              ELSE r1
        r3 == IF ~(MIN_S <= m.dur /\ m.dur <= MAX_S)
              THEN fail(r2, "DURATION",
                        wav \o ": duration " \o FloatStr2(m.dur) \o "s outside [1.5,14.0]", path)
              ELSE r2
        r4 == IF m.sw # 2
              THEN fail(r3, "BIT_DEPTH", wav \o ": must be 16-bit PCM (sampwidth=2)", path)
              ELSE r3
    IN  [r4 EXCEPT !.checked = @ + 1]

\* mutant: a row without audio_file counted as checked
AudioRowStep_CountsSkipped(r, i, row) ==
    IF ~Truthy(row.audio_file)
    THEN [fail(r, "CSV_FIELD", "audio_file missing", LineTag(i)) EXCEPT !.checked = @ + 1]
    ELSE LET wav == PathJoin(ClipsDir, Basename(row.audio_file.v))
         IN  IF row.file.state = "missing"
             THEN fail(r, "MISSING_WAV", wav \o " not found", LineTag(i))
             ELSE IF row.file.state = "unreadable"
             THEN fail(r, "WAV_READ", wav \o ": " \o row.file.err, LineTag(i))
             ELSE AudioChecks(r, wav, row.file, LineTag(i))

\* mutant: no continue after WAV_READ, the constraints checked on what was not read
AudioRowStep_NoContinue(r, i, row) ==
    IF ~Truthy(row.audio_file)
    THEN fail(r, "CSV_FIELD", "audio_file missing", LineTag(i))
    ELSE LET wav == PathJoin(ClipsDir, Basename(row.audio_file.v))
         IN  IF row.file.state = "missing"
             THEN fail(r, "MISSING_WAV", wav \o " not found", LineTag(i))
             ELSE IF row.file.state = "unreadable"
             THEN AudioChecks(fail(r, "WAV_READ", wav \o ": " \o row.file.err, LineTag(i)),
                              wav, row.file, LineTag(i))
             ELSE AudioChecks(r, wav, row.file, LineTag(i))

\* validate_audio.py:21-43, one turn of the loop; i is the CSV line of the row
AudioRowStep(r, i, row) ==
    IF ~Truthy(row.audio_file)
    THEN fail(r, "CSV_FIELD", "audio_file missing", LineTag(i))
    ELSE LET wav == PathJoin(ClipsDir, Basename(row.audio_file.v))
         IN  IF row.file.state = "missing"
             THEN fail(r, "MISSING_WAV", wav \o " not found", LineTag(i))
             ELSE IF row.file.state = "unreadable"
             THEN fail(r, "WAV_READ", wav \o ": " \o row.file.err, LineTag(i))
             ELSE AudioChecks(r, wav, row.file, LineTag(i))

----------------------------------------------------------------------------
(* mumbl_format_guardians/validate_text.py, mumbl_data_contracts/segments.py *)

REQUIRED_LABELS == <<"is_dialogue">>

\* mutant: lines counted from 0
LineIndex_ZeroBased(i) == "[" \o ToString(i - 1) \o "]"

\* f"[{i}]"
LineIndex(i) == "[" \o ToString(i) \o "]"

\* segments.py:4-19: whether TextSegment(**obj) is constructed.  labels.is_dialogue
\* is a required bool: absent or null, the model is refused
SchemaAccepts(obj) ==
    /\ obj.is_dict
    /\ obj.fields_ok
    /\ obj.is_dialogue \in {"true", "false"}

\* the text of the exception TextSegment(**obj) raises
SchemaError(obj) ==
    IF ~obj.is_dict THEN "argument after ** must be a mapping"
    ELSE "validation error for TextSegment"

\* the model instance: labels.is_dialogue is a bool after validation
TextSegment(obj) ==
    [labels |-> [is_dialogue |-> Some(obj.is_dialogue = "true")],
     source_ref |-> [start |-> obj.start, end |-> obj.end]]

\* mutant: start equal to end let through
SegmentChecks_Strict(r, i, ts) ==
    LET r1 == IF ~ts.labels[REQUIRED_LABELS[1]].some
              THEN fail(r, "LABEL_MISSING", "Missing labels." \o REQUIRED_LABELS[1],
                        LineIndex(i) \o ".labels." \o REQUIRED_LABELS[1])
              ELSE r
    IN  IF ts.source_ref.start > ts.source_ref.end
        THEN fail(r1, "GROUNDING_OFFSETS", "start >= end", LineIndex(i) \o ".source_ref")
        ELSE r1

\* validate_text.py:22-27, the checks on a constructed TextSegment
SegmentChecks(r, i, ts) ==
    LET r1 == IF ~ts.labels[REQUIRED_LABELS[1]].some
              THEN fail(r, "LABEL_MISSING", "Missing labels." \o REQUIRED_LABELS[1],
                        LineIndex(i) \o ".labels." \o REQUIRED_LABELS[1])
              ELSE r
    IN  IF ts.source_ref.start >= ts.source_ref.end
        THEN fail(r1, "GROUNDING_OFFSETS", "start >= end", LineIndex(i) \o ".source_ref")
        ELSE r1

\* mutant: checked incremented only for a line that recorded no issue
TextLineStep_CountsValid(r, i, line) ==
    IF line.kind = "blank" THEN r
    ELSE IF line.kind = "invalid"
    THEN fail(r, "JSON_DECODE", "Line " \o ToString(i) \o ": " \o line.err, LineIndex(i))
    ELSE LET r1 == IF SchemaAccepts(line.obj)
                   THEN SegmentChecks(r, i, TextSegment(line.obj))
                   ELSE fail(r, "CONTRACT",
                             "Line " \o ToString(i) \o " failed TextSegment schema: "
                                 \o SchemaError(line.obj),
                             LineIndex(i))
         IN  IF Len(r1.errors) = Len(r.errors) THEN [r1 EXCEPT !.checked = @ + 1] ELSE r1

\* mutant: a blank line counted as checked
TextLineStep_CountsBlank(r, i, line) ==
    IF line.kind = "blank" THEN [r EXCEPT !.checked = @ + 1]
    ELSE IF line.kind = "invalid"
    THEN fail(r, "JSON_DECODE", "Line " \o ToString(i) \o ": " \o line.err, LineIndex(i))
    ELSE LET r1 == IF SchemaAccepts(line.obj)
                   THEN SegmentChecks(r, i, TextSegment(line.obj))
                   ELSE fail(r, "CONTRACT",
                             "Line " \o ToString(i) \o " failed TextSegment schema: "
                                 \o SchemaError(line.obj),
                             LineIndex(i))
         IN  [r1 EXCEPT !.checked = @ + 1]

\* validate_text.py:10-30, one turn of the loop
TextLineStep(r, i, line) ==
    IF line.kind = "blank" THEN r
    ELSE IF line.kind = "invalid"
    THEN fail(r, "JSON_DECODE", "Line " \o ToString(i) \o ": " \o line.err, LineIndex(i))
    ELSE LET r1 == IF SchemaAccepts(line.obj)
                   THEN SegmentChecks(r, i, TextSegment(line.obj))
                   ELSE fail(r, "CONTRACT",
                             "Line " \o ToString(i) \o " failed TextSegment schema: "
                                 \o SchemaError(line.obj),
                             LineIndex(i))
         IN  [r1 EXCEPT !.checked = @ + 1]

----------------------------------------------------------------------------
(* mumbl_format_guardians/validate_scores.py *)

FIELDS ==
    <<"clarity", "alignment", "diarization", "transcript_accuracy", "validity", "shape",
      "total">>

Running(r) == [rep |-> r, raised |-> ""]

Raise(r, exc) == [rep |-> r, raised |-> exc]

\* mutant: a null score let through
ScoreField_NullPasses(st, i, obj, k) ==
    LET v == obj.f[k]
    IN  IF st.raised # "" THEN st
        ELSE IF v.kind = "absent"
        THEN Running(fail(st.rep, "SCORE_RANGE", k \o " must be 0..100", LineIndex(i) \o "." \o k))
        ELSE IF v.kind = "null" THEN st
        ELSE IF v.kind = "str" THEN Raise(st.rep, "ValueError")
        ELSE IF ~(0 <= v.n /\ v.n <= 100)
        THEN Running(fail(st.rep, "SCORE_RANGE", k \o " must be 0..100", LineIndex(i) \o "." \o k))
        ELSE st

\* validate_scores.py:16-18 for field k: v = obj.get(k); float(v) raises on a
\* string that is no number
ScoreField(st, i, obj, k) ==
    LET v == obj.f[k]
    IN  IF st.raised # "" THEN st
        ELSE IF v.kind \in {"absent", "null"}
        THEN Running(fail(st.rep, "SCORE_RANGE", k \o " must be 0..100", LineIndex(i) \o "." \o k))
        ELSE IF v.kind = "str" THEN Raise(st.rep, "ValueError")
        ELSE IF ~(0 <= v.n /\ v.n <= 100)
        THEN Running(fail(st.rep, "SCORE_RANGE", k \o " must be 0..100", LineIndex(i) \o "." \o k))
        ELSE st

RECURSIVE ScoreFields(_, _, _, _)
ScoreFields(st, i, obj, n) ==
    IF n = 0 THEN st
    ELSE ScoreField(ScoreFields(st, i, obj, n - 1), i, obj, FIELDS[n])

\* validate_scores.py:8-19, one turn of the loop: the report, and the exception
\* that leaves the function, if any
ScoreLineStep(r, i, line) ==
    IF line.kind = "blank" THEN Running(r)
    ELSE IF line.kind = "invalid"
    THEN Running(fail(r, "JSON", "Line " \o ToString(i) \o ": " \o line.err, LineIndex(i)))
    ELSE IF ~line.obj.is_dict THEN Raise(r, "AttributeError")
    ELSE LET st == ScoreFields(Running(r), i, line.obj, Len(FIELDS))
         IN  IF st.raised # "" THEN st
             ELSE Running([st.rep EXCEPT !.checked = @ + 1])

----------------------------------------------------------------------------
(* mumbl_data_contracts/profiles.py, mumbl_format_guardians/validate_profile.py *)

\* [0-9], what \d matches in the strings of the model
Digits == {"0", "1", "2", "3"}

AllDigits(w, a, b) == a <= b /\ \A n \in a..b : w[n] \in Digits

\* \d+\.\d+\.\d+ over the whole of w, a sequence of characters
ThreeNumbers(w) ==
    \E i, j \in 1..Len(w) :
        /\ i < j
        /\ w[i] = "." /\ w[j] = "."
        /\ AllDigits(w, 1, i - 1) /\ AllDigits(w, i + 1, j - 1) /\ AllDigits(w, j + 1, Len(w))

\* re.match(r"^\d+\.\d+\.\d+$", v): without re.MULTILINE, $ matches at the end of
\* the string and also just before a newline that ends the string
ReMatchSemver(v) ==
    \/ ThreeNumbers(v)
    \/ Len(v) > 0 /\ v[Len(v)] = "\n" /\ ThreeNumbers(SubSeq(v, 1, Len(v) - 1))

\* profiles.py:46-50, the assertion of the version validator
semver(v) == ReMatchSemver(v)

\* 1.0 and 1e-6 in the unit of the weights, 1e-7
ONE == 10000000

TOLERANCE == 10

Abs(x) == IF x < 0 THEN 0 - x ELSE x

\* profiles.py:52-56, the assertion of the register_defaults validator on the
\* values of the dict
probs_sum_to_one(v) == Abs(SumSeq(v) - ONE) < TOLERANCE

\* profiles.py:58-63, the assertion of the model validator
no_cycles_in_fallback(dialect, chain) == dialect \notin Range(chain)

\* profiles.py:32, 38, 42: the defaults of the three fields; a field validator
\* is not run on a default
DefaultVersion == <<"1", ".", "0", ".", "0">>

DefaultRegisters == <<3000000, 7000000>>

Absent == [some |-> FALSE, v |-> <<>>]

\* profiles.py:28-63: whether LanguageProfileV1(**obj) is constructed; the
\* model validator runs after the fields have passed
LanguageProfileV1(obj) ==
    /\ obj.required_ok
    /\ obj.version.some => semver(obj.version.v)
    /\ obj.register_defaults.some => probs_sum_to_one(obj.register_defaults.v)
    /\ no_cycles_in_fallback(obj.dialect,
                             IF obj.fallback_chain.some THEN obj.fallback_chain.v ELSE <<>>)

\* validate_profile.py:5-8: "True", or the exception that leaves the function
validate_profile_json_str(s) ==
    IF s.kind = "invalid" THEN "JSONDecodeError"
    ELSE IF ~s.obj.is_dict THEN "TypeError"
    ELSE IF ~LanguageProfileV1(s.obj) THEN "ValidationError"
    ELSE "True"

----------------------------------------------------------------------------
(* tools/dataset_build.py *)

\* repr of the dict that build_tts_snapshot returns
PathsRepr(p) ==
    "{'manifest': '" \o p.manifest \o "', 'metadata_csv': '" \o p.metadata_csv
    \o "', 'dataset_card': '" \o p.dataset_card \o "'}"

\* dataset_build.py:24-29 and the interpreter's handling of what escapes main:
\* SystemExit(text) prints text on stderr and exits 1, any other exception a
\* traceback and exits 1
ProcessExit(o) ==
    IF o.kind = "returned"
    THEN [code |-> 0, stdout |-> <<"OK: " \o PathsRepr(o.paths)>>, stderr |-> <<>>]
    ELSE IF o.kind = "SystemExit"
    THEN [code |-> 1, stdout |-> <<>>, stderr |-> o.text]
    ELSE [code |-> 1, stdout |-> <<>>,
          stderr |-> <<"Traceback (most recent call last):">> \o <<o.kind \o ": " \o o.text[1]>>]

NoExit == [code |-> 0, stdout |-> <<>>, stderr |-> <<>>]

----------------------------------------------------------------------------
(* mumbl_format_guardians/tools: the command lines of the format guardians *)

\* f"[{e.code}] {e.message} @ {e.path}"
IssueText(e) == "[" \o e.code \o "] " \o e.message \o " @ " \o e.path

\* tools/validate_audio_dataset.py:10-16, tools/validate_text_jsonl.py:10-16,
\* tools/validate_scores.py:10-16: what the command does with the report; noun
\* is "rows", "segments" or "scores"
ReportExit(r, noun) ==
    IF r.ok
    THEN [code |-> 0, stdout |-> <<"OK: " \o ToString(r.checked) \o " " \o noun \o " validated">>,
          stderr |-> <<>>]
    ELSE [code |-> 1, stdout |-> <<>>,
          stderr |-> [n \in 1..Len(r.errors) |-> IssueText(r.errors[n])]]

\* an exception that nothing catches: the interpreter prints the traceback,
\* which ends with the exception, and exits with 1
UncaughtExit(exc) ==
    [code |-> 1, stdout |-> <<>>, stderr |-> <<"Traceback (most recent call last):", exc>>]

\* the errors of the pydantic ValidationError that LanguageProfileV1(**obj)
\* raises, as type, msg and loc: the field validators that failed, in field
\* order, or the model validator when every field has passed
ProfileErrors(obj) ==
    LET fields ==
            (IF ~obj.required_ok
             THEN <<[code |-> "missing", message |-> "Field required", path |-> "language"]>>
             ELSE <<>>)
            \o (IF obj.version.some /\ ~semver(obj.version.v)
                THEN <<[code |-> "assertion_error",
                        message |-> "Assertion failed, version must be semver",
                        path |-> "version"]>>
                ELSE <<>>)
            \o (IF obj.register_defaults.some /\ ~probs_sum_to_one(obj.register_defaults.v)
                THEN <<[code |-> "assertion_error",
                        message |-> "Assertion failed, register_defaults must sum to 1.0",
                        path |-> "register_defaults"]>>
                ELSE <<>>)
    IN  IF fields # <<>> THEN fields
        ELSE <<[code |-> "assertion_error",
                message |-> "Assertion failed, fallback_chain cannot include self",
                path |-> ""]>>

\* str(e) of the exception validate_profile_json_str raises, line by line; of
\* a ValidationError the count line and, for each error, its loc and its msg
\* with the type in brackets
ProfileExceptionText(s) ==
    IF s.kind = "invalid" THEN <<"Expecting value: line 1 column 1 (char 0)">>
    ELSE IF ~s.obj.is_dict
    THEN <<"mumbl_data_contracts.profiles.LanguageProfileV1() argument after ** must be "
           \o "a mapping, not list">>
    ELSE LET es == ProfileErrors(s.obj)
             line(n) == IF n % 2 = 1 THEN es[(n + 1) \div 2].path
                        ELSE "  " \o es[n \div 2].message
                                  \o " [type=" \o es[n \div 2].code \o "]"
         IN  <<ToString(Len(es)) \o " validation error"
                   \o (IF Len(es) = 1 THEN "" ELSE "s") \o " for LanguageProfileV1">>
             \o [n \in 1..(2 * Len(es)) |-> line(n)]

ProfilePath == "profile.json"

\* tools/profile_validate.py:8-16: print("OK:", args.path), or the exception
\* caught and printed after "ERROR:"
ProfileExit(path, s) ==
    IF validate_profile_json_str(s) = "True"
    THEN [code |-> 0, stdout |-> <<"OK: " \o path>>, stderr |-> <<>>]
    ELSE LET text == ProfileExceptionText(s)
         IN  [code |-> 1, stdout |-> <<>>,
              stderr |-> <<"ERROR: " \o text[1]>> \o Tail(text)]

----------------------------------------------------------------------------
(* Inputs. *)

Row(wav, sr, dur, text, ph, spk) ==
    [wav |-> wav, sample_rate |-> sr, duration_s |-> dur,
     text |-> text, phonemes |-> ph, speaker_id |-> spk]

\* the rows the linter is run on by itself
TextAndPhonemes ==
    {<<NoneStr, NoneStr>>, <<Some(""), Some("")>>,
     <<Some("hi"), NoneStr>>, <<Some(""), Some("h aI")>>}

LintRowSet ==
    {Row(Some("clips/a.wav"), sr, dur, tp[1], tp[2], NoneStr) :
        sr \in {NoneNum, Some(22050), Some(24000)},
        dur \in {NoneNum, Some(14), Some(15), Some(140), Some(141)},
        tp \in TextAndPhonemes}

\* the row of tests/integration/test_dataset_build_cli.py
RowA == Row(Some("clips/a.wav"), Some(24000), Some(22), Some("hi"), NoneStr, Some("spk"))

\* phonemes only, no speaker
RowB == Row(Some("clips/b.wav"), Some(24000), Some(35), NoneStr, Some("j oU"), NoneStr)

\* too long and without text
RowC == Row(Some("clips/c.wav"), Some(24000), Some(141), NoneStr, NoneStr, NoneStr)

\* passes the lint without a wav key, at another sample rate
RowD == Row(NoneStr, Some(22050), Some(15), Some("ok"), Some("oU k"), Some("spk"))

BuildRowSet == {RowA, RowB, RowC, RowD}

FileMissing == [state |-> "missing", err |-> "", sr |-> 0, ch |-> 0, dur |-> 0, sw |-> 0]

FileUnreadable ==
    [state |-> "unreadable", err |-> "file does not start with RIFF id",
     sr |-> 0, ch |-> 0, dur |-> 0, sw |-> 0]

Wav(sr, ch, dur, sw) ==
    [state |-> "read", err |-> "", sr |-> sr, ch |-> ch, dur |-> dur, sw |-> sw]

\* what _wav_meta reads (validate_audio.py:8-15): every combination of a good
\* and a bad value of the four, and the other sample rate and the duration
\* bounds on a file good otherwise
WavFiles ==
    {Wav(sr, ch, dur, sw) : sr \in {16000, 24000}, ch \in {1, 2}, dur \in {15, 141}, sw \in {1, 2}}
    \cup {Wav(22050, 1, 15, 2), Wav(24000, 1, 14, 2), Wav(24000, 1, 140, 2)}

\* a CSV row with the file its audio_file resolves to
CsvRowSet ==
    {[audio_file |-> NoneStr, file |-> FileMissing],
     [audio_file |-> Some(""), file |-> FileMissing]}
    \cup {[audio_file |-> Some("clips/a.wav"), file |-> f] :
            f \in {FileMissing, FileUnreadable} \cup WavFiles}

NoTextObj ==
    [is_dict |-> FALSE, fields_ok |-> FALSE, is_dialogue |-> "absent", start |-> 0, end |-> 0]

TextObjs ==
    {[is_dict |-> TRUE, fields_ok |-> fo, is_dialogue |-> d, start |-> se[1], end |-> se[2]] :
        fo \in BOOLEAN, d \in {"absent", "null", "true", "false"},
        se \in {<<0, 2>>, <<5, 2>>, <<2, 2>>}}

JsonErr == "Expecting value: line 1 column 1 (char 0)"

TextLineSet ==
    {[kind |-> "blank", err |-> "", obj |-> NoTextObj],
     [kind |-> "invalid", err |-> JsonErr, obj |-> NoTextObj],
     [kind |-> "json", err |-> "", obj |-> NoTextObj]}
    \cup {[kind |-> "json", err |-> "", obj |-> o] : o \in TextObjs}

FieldSet == Range(FIELDS)

Num(n) == [kind |-> "num", n |-> n]

ScoreValues ==
    {[kind |-> "absent", n |-> 0], [kind |-> "null", n |-> 0], [kind |-> "str", n |-> 0],
     Num(-1), Num(0), Num(100), Num(101)}

ScoreObj(S, v) == [is_dict |-> TRUE, f |-> [k \in FieldSet |-> IF k \in S THEN v ELSE Num(50)]]

\* the score objects: every field 50 but those of S; S is no field, every
\* field, the first or the last field with any value, or any one field
\* absent or over 100
ScoreObjs ==
    {ScoreObj(S, v) : v \in ScoreValues, S \in {{}, FieldSet, {"clarity"}, {"total"}}}
    \cup {ScoreObj({k}, v) : k \in FieldSet, v \in {[kind |-> "absent", n |-> 0], Num(101)}}

NoScoreObj == [is_dict |-> FALSE, f |-> [k \in FieldSet |-> [kind |-> "absent", n |-> 0]]]

ScoreLineSet ==
    {[kind |-> "blank", err |-> "", obj |-> NoScoreObj],
     [kind |-> "invalid", err |-> JsonErr, obj |-> NoScoreObj],
     [kind |-> "json", err |-> "", obj |-> NoScoreObj]}
    \cup {[kind |-> "json", err |-> "", obj |-> o] : o \in ScoreObjs}

\* version strings, as their characters
Versions ==
    {<<"1", ".", "0", ".", "0">>, <<"1", "0", ".", "2", ".", "3", "3">>,
     <<"1", ".", "0">>, <<"1", ".", "0", ".", "0", ".", "0">>,
     <<"v", "1", ".", "0", ".", "0">>, <<"1", ".", ".", "0">>, <<".", "0", ".", "0">>,
     <<"1", ".", "0", ".", "x">>, <<"1", ".", "0", ".", "0", " ">>,
     <<"1", ".", "0", ".", "0", "\n">>, <<"1", ".", "0", ".", "0", "\n", "\n">>,
     <<"\n", "1", ".", "0", ".", "0">>, <<>>}

\* register weights in units of 1e-7: sums of 1.0, within 1e-6 of it on either
\* side, and further away
RegisterWeights ==
    {<<3000000, 7000000>>, <<10000000>>, <<5000000, 4999995>>, <<5000000, 5000005>>,
     <<5000000, 5000020>>, <<5000000, 4999980>>, <<5000000>>, <<>>}

Dialects == {"en-US", "en-GB"}

FallbackChains == {<<>>, <<"en-GB">>, <<"en-US">>, <<"sw-KE", "en-US">>}

NoProfileObj ==
    [is_dict |-> FALSE, required_ok |-> FALSE, dialect |-> "", version |-> Absent,
     register_defaults |-> Absent, fallback_chain |-> Absent]

\* the profile objects: required_ok says that language, dialect, script and
\* phoneme_inventory are there with their types and that the optional fields
\* other than the three below validate
ProfileObjs ==
    {[is_dict |-> TRUE, required_ok |-> rq, dialect |-> d, version |-> v,
      register_defaults |-> w, fallback_chain |-> c] :
        rq \in BOOLEAN, d \in Dialects,
        v \in {Absent} \cup {Some(x) : x \in Versions},
        w \in {Absent} \cup {Some(x) : x \in RegisterWeights},
        c \in {Absent} \cup {Some(x) : x \in FallbackChains}}

ProfileStrings ==
    {[kind |-> "invalid", obj |-> NoProfileObj], [kind |-> "json", obj |-> NoProfileObj]}
    \cup {[kind |-> "json", obj |-> o] : o \in ProfileObjs}

----------------------------------------------------------------------------
(* One run of the linter or of a format guardian, a row or a line at a time. *)

\* mutant: the report created with ok false
NewReport_NotOk == ValidationReport(FALSE, 0, <<>>)

\* ValidationReport(ok=True, checked=0)
NewReport == ValidationReport(TRUE, 0, <<>>)

\* lints.py:18-20
LintEnter ==
    /\ tool = "lint"
    /\ pc = "called"
    /\ ok' = MixCheck(input).ok
    /\ issues' = MixCheck(input).issues
    /\ pc' = "loop"
    /\ UNCHANGED <<tool, input, idx, rep, buildVars>>

\* lints.py:21-26
LintRow ==
    /\ tool = "lint"
    /\ pc = "loop"
    /\ idx < Len(input)
    /\ LET st == RowCheck(LintReport(ok, issues), input[idx + 1])
       IN  /\ ok' = st.ok
           /\ issues' = st.issues
    /\ idx' = idx + 1
    /\ UNCHANGED <<tool, input, pc, rep, buildVars>>

\* lints.py:27
LintReturn ==
    /\ tool = "lint"
    /\ pc = "loop"
    /\ idx = Len(input)
    /\ pc' = "returned"
    /\ UNCHANGED <<tool, input, idx, ok, issues, rep, buildVars>>

\* validate_audio.py:21-43; the first data row is line 2 of the CSV
AudioRow ==
    /\ tool = "audio"
    /\ pc = "loop"
    /\ idx < Len(input)
    /\ rep' = AudioRowStep(rep, idx + 2, input[idx + 1])
    /\ idx' = idx + 1
    /\ UNCHANGED <<tool, input, pc, ok, issues, buildVars>>

\* validate_audio.py:44
AudioReturn ==
    /\ tool = "audio"
    /\ pc = "loop"
    /\ idx = Len(input)
    /\ pc' = "returned"
    /\ UNCHANGED <<tool, input, idx, ok, issues, rep, buildVars>>

\* validate_text.py:10-30
TextLine ==
    /\ tool = "text"
    /\ pc = "loop"
    /\ idx < Len(input)
    /\ rep' = TextLineStep(rep, idx + 1, input[idx + 1])
    /\ idx' = idx + 1
    /\ UNCHANGED <<tool, input, pc, ok, issues, buildVars>>

\* validate_text.py:31
TextReturn ==
    /\ tool = "text"
    /\ pc = "loop"
    /\ idx = Len(input)
    /\ pc' = "returned"
    /\ UNCHANGED <<tool, input, idx, ok, issues, rep, buildVars>>

\* validate_scores.py:8-19
ScoreLine ==
    /\ tool = "scores"
    /\ pc = "loop"
    /\ idx < Len(input)
    /\ LET st == ScoreLineStep(rep, idx + 1, input[idx + 1])
       IN  /\ rep' = st.rep
           /\ pc' = IF st.raised # "" THEN "raised" ELSE "loop"
    /\ idx' = idx + 1
    /\ UNCHANGED <<tool, input, ok, issues, buildVars>>

\* validate_scores.py:20
ScoresReturn ==
    /\ tool = "scores"
    /\ pc = "loop"
    /\ idx = Len(input)
    /\ pc' = "returned"
    /\ UNCHANGED <<tool, input, idx, ok, issues, rep, buildVars>>

\* validate_profile.py:5-8
ProfileValidate ==
    /\ tool = "profile"
    /\ pc = "called"
    /\ pc' = IF validate_profile_json_str(input) = "True" THEN "returned" ELSE "raised"
    /\ UNCHANGED <<tool, input, idx, ok, issues, rep, buildVars>>

\* tools/validate_audio_dataset.py:9-16
AudioCli ==
    /\ tool = "audio"
    /\ pc = "returned"
    /\ exit' = ReportExit(rep, "rows")
    /\ pc' = "exited"
    /\ UNCHANGED <<tool, input, idx, ok, issues, rep, files, before, call, outcome, nbuilds>>

\* tools/validate_text_jsonl.py:8-16
TextCli ==
    /\ tool = "text"
    /\ pc = "returned"
    /\ exit' = ReportExit(rep, "segments")
    /\ pc' = "exited"
    /\ UNCHANGED <<tool, input, idx, ok, issues, rep, files, before, call, outcome, nbuilds>>

\* tools/validate_scores.py:8-16; an exception of validate_scores_json, the one
\* its last turn raised, leaves main uncaught
ScoresCli ==
    /\ tool = "scores"
    /\ \/ /\ pc = "returned"
          /\ exit' = ReportExit(rep, "scores")
          /\ pc' = "exited"
       \/ /\ pc = "raised"
          /\ exit' = UncaughtExit(ScoreLineStep(NewReport, idx, input[idx]).raised)
          /\ pc' = "exited_after_raise"
    /\ UNCHANGED <<tool, input, idx, ok, issues, rep, files, before, call, outcome, nbuilds>>

\* tools/profile_validate.py:8-16
ProfileCli ==
    /\ tool = "profile"
    /\ pc \in {"returned", "raised"}
    /\ exit' = ProfileExit(ProfilePath, input)
    /\ pc' = IF pc = "returned" THEN "exited" ELSE "exited_after_raise"
    /\ UNCHANGED <<tool, input, idx, ok, issues, rep, files, before, call, outcome, nbuilds>>

InitBuild ==
    /\ files = EmptyDir
    /\ before = EmptyDir
    /\ call = [out_dir |-> OutDir, rows |-> <<>>, use_phonemes |-> FALSE]
    /\ outcome = NotCalled
    /\ exit = NoExit
    /\ nbuilds = 0

\* lints.py:15-16, validate_audio.py:18, validate_text.py:9, validate_scores.py:7
InitRun ==
    /\ \/ /\ tool = "lint"
          /\ \E n \in 0..MaxRows : input \in [1..n -> LintRowSet]
          /\ pc = "called"
       \/ /\ tool = "audio"
          /\ \E n \in 0..MaxCsvRows : input \in [1..n -> CsvRowSet]
          /\ pc = "loop"
       \/ /\ tool = "text"
          /\ \E n \in 0..MaxLines : input \in [1..n -> TextLineSet]
          /\ pc = "loop"
       \/ /\ tool = "scores"
          /\ \E n \in 0..MaxLines : input \in [1..n -> ScoreLineSet]
          /\ pc = "loop"
       \/ /\ tool = "profile"
          /\ input \in ProfileStrings
          /\ pc = "called"
    /\ idx = 0
    /\ ok = TRUE
    /\ issues = <<>>
    /\ rep = NewReport

Init == InitRun /\ InitBuild

Next ==
    \/ LintEnter \/ LintRow \/ LintReturn
    \/ AudioRow \/ AudioReturn
    \/ TextLine \/ TextReturn
    \/ ScoreLine \/ ScoresReturn
    \/ ProfileValidate
    \/ AudioCli \/ TextCli \/ ScoresCli \/ ProfileCli

Spec == Init /\ [][Next]_vars

----------------------------------------------------------------------------
(* The dataset-build command, call after call on one output directory. *)

\* dataset_build.py:14-29 around build_tts.py:30-44
DatasetBuild(rs, use_phonemes) ==
    /\ nbuilds < MaxBuilds
    /\ \E srlist \in ListsOf(SampleRateValues(rs)) :
           \E r \in {build_tts_snapshot(files, OutDir, rs, use_phonemes, srlist)} :
               /\ files' = r.files
               /\ outcome' = r.outcome
               /\ exit' = ProcessExit(r.outcome)
    /\ before' = files
    /\ call' = [out_dir |-> OutDir, rows |-> rs, use_phonemes |-> use_phonemes]
    /\ nbuilds' = nbuilds + 1
    /\ UNCHANGED runVars

InitIdle ==
    /\ tool = "none"
    /\ input = <<>>
    /\ pc = "idle"
    /\ idx = 0
    /\ ok = TRUE
    /\ issues = <<>>
    /\ rep = NewReport

BuildInit == InitIdle /\ InitBuild

\* the manifests given to the dataset builder
BuildManifests == SeqsUpTo(BuildRowSet, MaxBuildRows)

BuildNext ==
    \E rs \in BuildManifests, use_phonemes \in BOOLEAN :
        DatasetBuild(rs, use_phonemes)

SpecBuild == BuildInit /\ [][BuildNext]_vars

----------------------------------------------------------------------------
(* Properties of the dataset builder, under SpecBuild. *)

Called == nbuilds > 0

LastLint == lint_tts_manifest(call.rows)

Succeeded == Called /\ outcome.kind = "returned"

\* C2: a dataset-build call whose rows the linter rejects (more than one sample
\* rate, for one) raises before any write: manifest.jsonl, metadata.csv and
\* dataset_card.json are as the call found them, whatever was built before.
C2_LintFailureWritesNothing ==
    (Called /\ ~LastLint.ok) =>
        /\ outcome.kind = "SystemExit"
        /\ files.manifest = before.manifest
        /\ files.metadata = before.metadata
        /\ files.card = before.card

C2_Witness ==
    /\ Called
    /\ Cardinality({call.rows[i].sample_rate : i \in 1..Len(call.rows)}) > 1
    /\ outcome.kind = "SystemExit"
    /\ Len(outcome.text) = 2
    /\ before.manifest.exists /\ before.metadata.exists /\ before.card.exists
    /\ Len(before.manifest.data) = 2

\* C3: when the lint fails, the SystemExit of build_tts_snapshot, which the
\* command prints on stderr before exiting non-zero, has one "[CODE] message"
\* line for every issue of the lint report, in the report's order.
C3_FailureCarriesEveryIssue ==
    (Called /\ ~LastLint.ok) =>
        /\ outcome.kind = "SystemExit"
        /\ Len(outcome.text) = 1 + Len(LastLint.issues)
        /\ \A i \in 1..Len(LastLint.issues) :
               outcome.text[i + 1]
                   = "[" \o LastLint.issues[i].code \o "] " \o LastLint.issues[i].msg
        /\ exit.code # 0
        /\ exit.stderr = outcome.text

C3_Witness ==
    /\ Called
    /\ outcome.kind = "SystemExit"
    /\ Len(LastLint.issues) = 3
    /\ outcome.text[2] = "[SAMPLE_RATE_MIX] Multiple sample rates detected"
    /\ outcome.text[4] = "[NO_TEXT_OR_PHONEMES] clips/c.wav missing text/phonemes"
    /\ exit.code = 1

\* the third field of a metadata.csv record: the speaker, or the sentinel
SpeakerField(r) == IF r.speaker_id.some THEN r.speaker_id.v ELSE "spk_unknown"

\* the middle field of a metadata.csv record
MiddleField(r, use_phonemes) ==
    IF use_phonemes
    THEN (IF r.phonemes.some THEN r.phonemes.v ELSE "")
    ELSE (IF r.text.some THEN r.text.v ELSE "")

\* C7: after a successful build metadata.csv has one record per input row, in
\* input order: the row's wav, its text (its phonemes under use_phonemes), and
\* its speaker_id, the third field being spk_unknown exactly for the rows with
\* no speaker_id.
C7_MetadataCsvRecords ==
    Succeeded =>
        /\ files.metadata.exists
        /\ Len(files.metadata.data) = Len(call.rows)
        /\ \A i \in 1..Len(call.rows) :
               LET r == call.rows[i]
                   rec == files.metadata.data[i]
               IN  /\ Len(rec) = 3
                   /\ rec[1] = r.wav.v
                   /\ rec[2] = MiddleField(r, call.use_phonemes)
                   /\ rec[3] = SpeakerField(r)
                   /\ (rec[3] = "spk_unknown") <=> ~r.speaker_id.some

C7_Witness ==
    /\ Succeeded
    /\ call.use_phonemes
    /\ Len(call.rows) = 2
    /\ call.rows[1].speaker_id.some /\ ~call.rows[2].speaker_id.some
    /\ files.metadata.data = <<<<"clips/a.wav", "", "spk">>,
                               <<"clips/b.wav", "j oU", "spk_unknown">>>>

\* C8: manifest.jsonl is overwritten, not appended to: after a successful build
\* it holds the serialized rows of that build, one per line in input order, and
\* nothing of an earlier build, also when this build has fewer rows.
C8_ManifestOverwritten ==
    Succeeded =>
        /\ files.manifest.exists
        /\ Len(files.manifest.data) = Len(call.rows)
        /\ \A i \in 1..Len(call.rows) : files.manifest.data[i] = JsonDumps(call.rows[i])

C8_Witness ==
    /\ Succeeded
    /\ before.manifest.exists /\ before.card.exists
    /\ Len(before.manifest.data) = 2
    /\ Len(call.rows) = 1
    /\ before.manifest.data[1] # files.manifest.data[1]
    /\ before.manifest.data[2] # files.manifest.data[1]
    /\ files.manifest.data
           = <<"{\"wav\": \"clips/b.wav\", \"sample_rate\": 24000, \"duration_s\": 3.5, \"phonemes\": \"j oU\"}">>

DistinctSampleRates(rs) == {rs[i].sample_rate.v : i \in 1..Len(rs)}

TotalTenths(rs) == SumSeq([i \in 1..Len(rs) |-> rs[i].duration_s.v])

\* C9: after a successful build dataset_card.json has clips = the number of
\* input rows (also the number of metadata.csv records and of manifest.jsonl
\* lines), sample_rate = the distinct sample rates of the rows, and minutes =
\* the sum of the rows' duration_s divided by 60.
C9_DatasetCardStats ==
    Succeeded =>
        /\ files.card.exists
        /\ files.card.clips = Len(call.rows)
        /\ files.card.clips = Len(files.metadata.data)
        /\ files.card.clips = Len(files.manifest.data)
        /\ Range(files.card.sample_rate) = DistinctSampleRates(call.rows)
        /\ Len(files.card.sample_rate) = Cardinality(DistinctSampleRates(call.rows))
        /\ files.card.minutes.den > 0
        \* num/den = (tenths/10)/60
        /\ files.card.minutes.num * 600 = TotalTenths(call.rows) * files.card.minutes.den

C9_Witness ==
    /\ Succeeded
    /\ Len(call.rows) = 2
    /\ call.rows[1].duration_s.v # call.rows[2].duration_s.v
    /\ files.card.clips = 2
    /\ files.card.sample_rate = <<24000>>
    /\ files.card.minutes = [num |-> 57, den |-> 600]

\* C10: a build repeated with the same rows, use_phonemes and output directory
\* leaves the three files with the content the first run gave them and returns
\* the same paths.
C10_Idempotent ==
    [][(Succeeded /\ nbuilds' = nbuilds + 1 /\ call' = call) =>
           (files' = files /\ outcome' = outcome)]_vars

C10_Witness ==
    /\ Succeeded
    /\ nbuilds = 2
    /\ Len(call.rows) = 2
    /\ call.rows[1] # call.rows[2]
    /\ before.card.exists
    /\ files = before
    /\ outcome.paths.dataset_card = "out/dataset_card.json"

\* every row of the last call has the three keys the builder subscripts
CarriesBuildKeys ==
    /\ AllHave(call.rows, "wav")
    /\ AllHave(call.rows, "sample_rate")
    /\ AllHave(call.rows, "duration_s")

\* C11: a dataset-build 'tts' call on a manifest whose rows all carry wav,
\* sample_rate and duration_s and pass the lint exits with code 0 after its
\* "OK:" line; metadata.csv, manifest.jsonl and dataset_card.json then exist in
\* the output directory, and build_tts_snapshot has returned exactly their
\* paths under manifest, metadata_csv and dataset_card.
C11_BuildSucceeds ==
    (Called /\ CarriesBuildKeys /\ LastLint.ok) =>
        /\ exit.code = 0
        /\ exit.stderr = <<>>
        /\ files.metadata.exists /\ files.manifest.exists /\ files.card.exists
        /\ outcome.kind = "returned"
        /\ DOMAIN outcome.paths = {"manifest", "metadata_csv", "dataset_card"}
        /\ outcome.paths.manifest = call.out_dir \o "/manifest.jsonl"
        /\ outcome.paths.metadata_csv = call.out_dir \o "/metadata.csv"
        /\ outcome.paths.dataset_card = call.out_dir \o "/dataset_card.json"

C11_Witness ==
    /\ nbuilds = 1
    /\ call.rows = <<RowA>>
    /\ ~before.metadata.exists /\ ~before.manifest.exists /\ ~before.card.exists
    /\ files.metadata.exists /\ files.manifest.exists /\ files.card.exists
    /\ exit.code = 0
    /\ exit.stdout
           = <<"OK: {'manifest': 'out/manifest.jsonl', 'metadata_csv': "
               \o "'out/metadata.csv', 'dataset_card': 'out/dataset_card.json'}">>

\* C23 as claimed: a manifest that passes the lint has exactly one distinct
\* sample_rate, so the sample_rate entry of dataset_card.json holds exactly one
\* value after a successful build; a manifest whose set of distinct sample
\* rates has another cardinality, the empty manifest included, is rejected
\* with SAMPLE_RATE_MIX and not built.
C23_SingletonSampleRate ==
    /\ (Called /\ LastLint.ok) => Cardinality(SampleRateSet(call.rows)) = 1
    /\ Succeeded => Len(files.card.sample_rate) = 1
    /\ (Called /\ Cardinality(SampleRateSet(call.rows)) # 1) =>
           /\ outcome.kind = "SystemExit"
           /\ \E n \in 1..Len(LastLint.issues) : LastLint.issues[n].code = "SAMPLE_RATE_MIX"
           /\ files.manifest = before.manifest
           /\ files.metadata = before.metadata
           /\ files.card = before.card

\* the last call wrote the three files from its rows; it left the three as
\* they were
AllWritten ==
    /\ files.manifest.exists /\ Len(files.manifest.data) = Len(call.rows)
    /\ files.metadata.exists /\ Len(files.metadata.data) = Len(call.rows)
    /\ files.card.exists /\ files.card.clips = Len(call.rows)

NoneTouched ==
    /\ files.manifest = before.manifest
    /\ files.metadata = before.metadata
    /\ files.card = before.card

\* C27 as claimed: after any call of build_tts_snapshot, returned or failed,
\* either the three files have all been written from the rows of the call or
\* none has been touched, and every manifest the lint accepts is built
\* completely.
C27_AllOrNothing ==
    Called =>
        /\ AllWritten \/ NoneTouched
        /\ LastLint.ok => (Succeeded /\ AllWritten)

\* C30 as claimed: in the metadata.csv of a successful build the middle field
\* of every record is non-empty, with use_phonemes unset and with it set.
C30_MiddleFieldNonEmpty ==
    Succeeded =>
        \A i \in 1..Len(files.metadata.data) : files.metadata.data[i][2] # ""

\* the column of a row that the builder puts in the middle field
SelectedColumn(r, use_phonemes) == IF use_phonemes THEN r.phonemes ELSE r.text

\* C30, amended: in the metadata.csv of a successful build the middle field
\* of a record is non-empty exactly when the row has a non-empty value in the
\* column the builder selects, text with use_phonemes unset and phonemes with
\* it set; the lint guarantees only that one of the two columns is non-empty,
\* and a row that has only the other column gets an empty middle field.
C30_MiddleFieldFollowsColumn ==
    Succeeded =>
        /\ Len(files.metadata.data) = Len(call.rows)
        /\ \A i \in 1..Len(call.rows) :
               LET col == SelectedColumn(call.rows[i], call.use_phonemes)
               IN  /\ (files.metadata.data[i][2] # "") <=> (col.some /\ col.v # "")
                   /\ \/ call.rows[i].text.some /\ call.rows[i].text.v # ""
                      \/ call.rows[i].phonemes.some /\ call.rows[i].phonemes.v # ""

C30_Witness ==
    /\ Succeeded
    /\ call.use_phonemes
    /\ call.rows = <<RowA, RowB>>
    /\ files.metadata.data = <<<<"clips/a.wav", "", "spk">>,
                               <<"clips/b.wav", "j oU", "spk_unknown">>>>

----------------------------------------------------------------------------
(* Properties of the linter and the format guardians, under Spec. *)

\* C1: at every step of lint_tts_manifest, validate_audio_dataset,
\* validate_text_jsonl and validate_scores_json, and after it, ok is false iff
\* the issue list is not empty: both start true and empty, and no step changes
\* one without the other.
C1_OkIffNoIssue ==
    /\ tool = "lint" => (ok = FALSE <=> issues # <<>>)
    /\ tool \in {"audio", "text", "scores"} => (rep.ok = FALSE <=> rep.errors # <<>>)

C1_Witness ==
    /\ tool = "audio"
    /\ pc = "returned"
    /\ Len(input) = 2
    /\ rep.ok = FALSE
    /\ Len(rep.errors) = 5
    /\ rep.errors[1].code = "MISSING_WAV"
    /\ rep.errors[5].code = "BIT_DEPTH"

CountCode(iss, code) == Cardinality({i \in 1..Len(iss) : iss[i].code = code})

\* the sample rates that occur in the rows
PresentRates(rs) ==
    {rs[i].sample_rate.v : i \in {j \in 1..Len(rs) : rs[j].sample_rate.some}}

\* C4: a manifest whose rows have more than one distinct sample_rate value gets
\* ok = false and exactly one SAMPLE_RATE_MIX issue, one for the manifest and
\* not one per row; a manifest whose rows all have the same value gets none.
C4_OneMixIssuePerManifest ==
    (tool = "lint" /\ pc \in {"loop", "returned"}) =>
        /\ CountCode(issues, "SAMPLE_RATE_MIX") <= 1
        /\ Cardinality(PresentRates(input)) > 1 =>
               (~ok /\ CountCode(issues, "SAMPLE_RATE_MIX") = 1)
        /\ ((\A i \in 1..Len(input) : input[i].sample_rate.some)
                /\ Cardinality(PresentRates(input)) = 1) =>
               CountCode(issues, "SAMPLE_RATE_MIX") = 0

C4_Witness ==
    /\ tool = "lint"
    /\ pc = "returned"
    /\ Len(input) = 2
    /\ PresentRates(input) = {22050, 24000}
    /\ ~ok
    /\ issues = <<LintIssue("SAMPLE_RATE_MIX", "Multiple sample rates detected")>>

\* the sample-rate check, with an absent sample_rate read as the value None
OneSampleRate(rs) == \A i, j \in 1..Len(rs) : rs[i].sample_rate = rs[j].sample_rate

DurationInRange(r) == r.duration_s.some /\ r.duration_s.v >= 15 /\ r.duration_s.v <= 140

HasTextOrPhonemes(r) ==
    \/ r.text.some /\ r.text.v # ""
    \/ r.phonemes.some /\ r.phonemes.v # ""

\* the three checks on the manifest, the per-row ones on its first n rows
ChecksHold(rs, n) ==
    /\ OneSampleRate(rs)
    /\ \A i \in 1..n : DurationInRange(rs[i]) /\ HasTextOrPhonemes(rs[i])

\* C5: lint_tts_manifest returns ok = true with no issue exactly when the three
\* checks hold together: one sample_rate for all rows, every duration_s in
\* [1.5, 14.0], every row with a non-empty text or phonemes; ok is false from
\* the first check that fails on.
C5_OkIsConjunctionOfChecks ==
    /\ (tool = "lint" /\ pc = "loop") => (ok <=> ChecksHold(input, idx))
    /\ (tool = "lint" /\ pc = "returned") =>
           /\ ok <=> ChecksHold(input, Len(input))
           /\ (ok /\ issues = <<>>) <=> ChecksHold(input, Len(input))

C5_Witness ==
    /\ tool = "lint"
    /\ pc = "returned"
    /\ Len(input) = 2
    /\ input[1].duration_s = Some(15)
    /\ input[2].duration_s = Some(140)
    /\ input[1].text = Some("hi")
    /\ input[2].phonemes = Some("h aI")
    /\ ok
    /\ issues = <<>>

\* the issue codes a row must get
ExpectedRowCodes(r) ==
    (IF DurationInRange(r) THEN <<>> ELSE <<"DURATION">>)
    \o (IF HasTextOrPhonemes(r) THEN <<>> ELSE <<"NO_TEXT_OR_PHONEMES">>)

RECURSIVE ExpectedCodes(_, _)
ExpectedCodes(rs, n) ==
    IF n = 0 THEN <<>> ELSE ExpectedCodes(rs, n - 1) \o ExpectedRowCodes(rs[n])

IsRowIssue(i) == i.code # "SAMPLE_RATE_MIX"

RowIssueCodes(iss) ==
    LET per == SelectSeq(iss, IsRowIssue)
    IN  [i \in 1..Len(per) |-> per[i].code]

\* C6: the per-row checks are exact and do not short-circuit: each row gets one
\* DURATION issue iff its duration_s is outside [1.5, 14.0] (the ends pass, an
\* absent duration_s is 0 and fails) and one NO_TEXT_OR_PHONEMES issue iff text
\* and phonemes are both empty or absent; a row failing both gets both, and a
\* failing row does not stop the checks of the rows after it.
C6_PerRowIssuesExact ==
    (tool = "lint" /\ pc \in {"loop", "returned"}) =>
        RowIssueCodes(issues) = ExpectedCodes(input, idx)

C6_Witness ==
    /\ tool = "lint"
    /\ pc = "returned"
    /\ Len(input) = 2
    /\ ~input[1].duration_s.some
    /\ input[2].duration_s = Some(141)
    /\ issues = <<LintIssue("DURATION", "clips/a.wav duration 0.0 out of bounds"),
                  LintIssue("NO_TEXT_OR_PHONEMES", "clips/a.wav missing text/phonemes"),
                  LintIssue("DURATION", "clips/a.wav duration 14.1 out of bounds"),
                  LintIssue("NO_TEXT_OR_PHONEMES", "clips/a.wav missing text/phonemes")>>

\* the place of a lint check in the order (a), (b), (c)
CheckRank(code) ==
    CASE code = "SAMPLE_RATE_MIX" -> 0
      [] code = "DURATION" -> 1
      [] OTHER -> 2

\* C22 as claimed: the issue list lint_tts_manifest returns has the
\* SAMPLE_RATE_MIX issue first, then all DURATION issues, then all
\* NO_TEXT_OR_PHONEMES issues: none of these precedes a DURATION issue.
C22_IssuesGroupedByCheck ==
    (tool = "lint" /\ pc = "returned") =>
        \A p, q \in 1..Len(issues) :
            p < q => CheckRank(issues[p].code) <= CheckRank(issues[q].code)

\* C22, amended: the issue list has the SAMPLE_RATE_MIX issue (if any) first
\* and then the issues row by row in row order, the DURATION issue of a row
\* before its NO_TEXT_OR_PHONEMES issue; the NO_TEXT_OR_PHONEMES issue of a row
\* precedes the DURATION issue of a later row.
C22_IssuesRowByRow ==
    (tool = "lint" /\ pc \in {"loop", "returned"}) =>
        [n \in 1..Len(issues) |-> issues[n].code]
            = (IF OneSampleRate(input) THEN <<>> ELSE <<"SAMPLE_RATE_MIX">>)
              \o ExpectedCodes(input, idx)

C22_Witness ==
    /\ tool = "lint"
    /\ pc = "returned"
    /\ Len(input) = 2
    /\ input[1].duration_s = Some(15) /\ ~input[1].text.some
    /\ input[2].duration_s = Some(141) /\ input[2].text = Some("hi")
    /\ [n \in 1..Len(issues) |-> issues[n].code]
           = <<"SAMPLE_RATE_MIX", "NO_TEXT_OR_PHONEMES", "DURATION">>

----------------------------------------------------------------------------
(* Properties of validate_audio_dataset, under Spec. *)

\* the issues the step appends, and whether it only appends
NewIssues == SubSeq(rep'.errors, Len(rep.errors) + 1, Len(rep'.errors))

KeepsIssues ==
    /\ Len(rep'.errors) >= Len(rep.errors)
    /\ SubSeq(rep'.errors, 1, Len(rep.errors)) = rep.errors

Codes(es) == [n \in 1..Len(es) |-> es[n].code]

\* a validator returns only when its loop has taken every row or line
ReturnsAfterLastRow ==
    (tool \in {"audio", "text", "scores"} /\ pc = "returned") => (idx = Len(input))

\* a turn of the loop of validate_audio_dataset, on the row input[idx + 1]
AudioTurn == tool = "audio" /\ idx' = idx + 1

NoAudioFile(row) == ~row.audio_file.some \/ row.audio_file.v = ""

\* C12: the turn of validate_audio_dataset on a CSV row whose audio_file is
\* missing or empty appends exactly one issue, CSV_FIELD at the row's line,
\* leaves checked as it was, looks at no file, and the loop goes on: the
\* validator returns only after the last row.
C12_MissingFieldRow ==
    /\ []ReturnsAfterLastRow
    /\ [][(AudioTurn /\ NoAudioFile(input[idx + 1])) =>
             /\ KeepsIssues
             /\ Codes(NewIssues) = <<"CSV_FIELD">>
             /\ NewIssues[1].path = "line " \o ToString(idx + 2)
             /\ rep'.checked = rep.checked
             /\ pc' = "loop"]_vars

C12_Witness ==
    /\ tool = "audio"
    /\ pc = "returned"
    /\ Len(input) = 2
    /\ input[1].audio_file = Some("")
    /\ input[2].file = Wav(24000, 1, 15, 2)
    /\ rep.errors = <<ValidationIssue("CSV_FIELD", "audio_file missing", "line 2")>>
    /\ rep.checked = 1

\* C13: the turn on a row whose resolved WAV file is absent appends exactly one
\* issue, MISSING_WAV, and the turn on a row whose file exists and cannot be
\* read exactly one, WAV_READ; none of SR, CHANNELS, DURATION, BIT_DEPTH is
\* recorded for it, checked stays, and the loop goes on to every later row.
C13_AbsentOrUnreadableWav ==
    /\ []ReturnsAfterLastRow
    /\ [][(AudioTurn /\ ~NoAudioFile(input[idx + 1])
                /\ input[idx + 1].file.state \in {"missing", "unreadable"}) =>
             /\ KeepsIssues
             /\ Codes(NewIssues)
                    = IF input[idx + 1].file.state = "missing"
                      THEN <<"MISSING_WAV">> ELSE <<"WAV_READ">>
             /\ NewIssues[1].path = "line " \o ToString(idx + 2)
             /\ rep'.checked = rep.checked
             /\ pc' = "loop"]_vars

C13_Witness ==
    /\ tool = "audio"
    /\ pc = "returned"
    /\ Len(input) = 2
    /\ input[1].file.state = "unreadable"
    /\ input[2].file = Wav(16000, 1, 15, 2)
    /\ Codes(rep.errors) = <<"WAV_READ", "SR">>
    /\ rep.errors[1].message = "clips_dir/a.wav: file does not start with RIFF id"
    /\ rep.errors[2].path = "line 3"
    /\ rep.checked = 1

\* the audio constraints a read WAV file violates
ViolatedAudio(m) ==
    (IF m.sr # 22050 /\ m.sr # 24000 THEN {"SR"} ELSE {})
    \cup (IF m.ch # 1 THEN {"CHANNELS"} ELSE {})
    \cup (IF m.dur < 15 \/ m.dur > 140 THEN {"DURATION"} ELSE {})
    \cup (IF m.sw # 2 THEN {"BIT_DEPTH"} ELSE {})

WasRead(row) == ~NoAudioFile(row) /\ row.file.state = "read"

\* C14: the turn on a row whose WAV file was read records exactly the violated
\* ones among SR (rate not 22050 or 24000), CHANNELS (not 1), DURATION (outside
\* [1.5, 14.0] s) and BIT_DEPTH (sample width not 2), each once at most,
\* whatever the other three do; so one SR issue for a rate outside the set and
\* none for a rate within it.
C14_AudioConstraintsIndependent ==
    [][(AudioTurn /\ WasRead(input[idx + 1])) =>
          /\ KeepsIssues
          /\ Range(Codes(NewIssues)) = ViolatedAudio(input[idx + 1].file)
          /\ Len(NewIssues) = Cardinality(ViolatedAudio(input[idx + 1].file))
          /\ \A n \in 1..Len(NewIssues) : NewIssues[n].path = "line " \o ToString(idx + 2)]_vars

C14_Witness ==
    /\ tool = "audio"
    /\ idx = 2
    /\ input[1].file = Wav(16000, 2, 141, 1)
    /\ input[2].file = Wav(22050, 1, 15, 2)
    /\ Codes(rep.errors) = <<"SR", "CHANNELS", "DURATION", "BIT_DEPTH">>
    /\ rep.errors[3].message = "clips_dir/a.wav: duration 14.10s outside [1.5,14.0]"

\* the rows taken so far for which no issue was recorded
CleanRows == {j \in 1..idx : \A n \in 1..Len(rep.errors) : rep.errors[n].path # LineTag(j + 1)}

\* C15 as claimed: at the end of validate_audio_dataset, checked is the number
\* of rows for which no issue was recorded.
C15_CheckedCountsCleanRows ==
    (tool = "audio" /\ pc = "returned") => rep.checked = Cardinality(CleanRows)

\* C15, amended: validate_audio_dataset increments checked for a row exactly
\* when the row's WAV file was read, whether or not the file violates SR,
\* CHANNELS, DURATION or BIT_DEPTH; checked is the number of rows read, and
\* every row without an issue is one of them.
C15_CheckedCountsReadRows ==
    (tool = "audio") =>
        /\ rep.checked = Cardinality({j \in 1..idx : WasRead(input[j])})
        /\ CleanRows \subseteq {j \in 1..idx : WasRead(input[j])}

C15_Witness ==
    /\ tool = "audio"
    /\ pc = "returned"
    /\ Len(input) = 2
    /\ input[1].file = Wav(24000, 2, 15, 2)
    /\ input[2].file = Wav(24000, 1, 15, 2)
    /\ Codes(rep.errors) = <<"CHANNELS">>
    /\ rep.checked = 2

\* C26: on a CSV with a header and no data row, validate_audio_dataset returns
\* a report with checked = 0, ok = true and no issue.
C26_EmptyCsvReport ==
    (tool = "audio" /\ pc = "returned" /\ Len(input) = 0) =>
        (rep.checked = 0 /\ rep.ok = TRUE /\ rep.errors = <<>>)

C26_Witness ==
    /\ tool = "audio"
    /\ pc = "returned"
    /\ input = <<>>
    /\ idx = 0
    /\ rep = [ok |-> TRUE, checked |-> 0, errors |-> <<>>]

----------------------------------------------------------------------------
(* Properties of validate_text_jsonl and validate_scores_json, under Spec. *)

\* a turn of the loop of validate_text_jsonl or validate_scores_json, on the
\* line input[idx + 1], whose 1-based index is idx + 1
LineTurn == tool \in {"text", "scores"} /\ idx' = idx + 1

\* C16: the turn of validate_text_jsonl or validate_scores_json on a non-blank
\* line that is not valid JSON appends exactly one issue (JSON_DECODE for text,
\* JSON for scores) with path "[i]", i the 1-based index of the line, leaves
\* checked as it was, and the loop goes on to the later lines.
C16_MalformedLineSkipped ==
    /\ []ReturnsAfterLastRow
    /\ [][(LineTurn /\ input[idx + 1].kind = "invalid") =>
             /\ KeepsIssues
             /\ Codes(NewIssues) = IF tool = "text" THEN <<"JSON_DECODE">> ELSE <<"JSON">>
             /\ NewIssues[1].path = "[" \o ToString(idx + 1) \o "]"
             /\ rep'.checked = rep.checked
             /\ pc' = "loop"]_vars

C16_Witness ==
    /\ tool = "scores"
    /\ pc = "returned"
    /\ Len(input) = 2
    /\ input[1].kind = "blank"
    /\ input[2].kind = "invalid"
    /\ rep.errors
           = <<ValidationIssue("JSON", "Line 2: Expecting value: line 1 column 1 (char 0)",
                               "[2]")>>
    /\ rep.checked = 0

\* a text line that is a TextSegment with start < end; a score line whose seven
\* fields are numbers in [0, 100]
ValidTextLine(line) ==
    /\ line.kind = "json"
    /\ line.obj.is_dict /\ line.obj.fields_ok
    /\ line.obj.is_dialogue \in {"true", "false"}
    /\ line.obj.start < line.obj.end

ValidScoreLine(line) ==
    /\ line.kind = "json"
    /\ line.obj.is_dict
    /\ \A k \in FieldSet :
           line.obj.f[k].kind = "num" /\ 0 <= line.obj.f[k].n /\ line.obj.f[k].n <= 100

ParsedLines == {j \in 1..idx : input[j].kind = "json"}

\* C17: while validate_text_jsonl or validate_scores_json runs, and when it
\* returns, checked is the number of lines taken that parsed as JSON, valid or
\* not; and a run over n valid lines returns ok = true with checked = n.
C17_CheckedCountsParsedLines ==
    (tool \in {"text", "scores"} /\ pc \in {"loop", "returned"}) =>
        /\ rep.checked = Cardinality(ParsedLines)
        /\ (pc = "returned"
              /\ \A j \in 1..Len(input) :
                     IF tool = "text" THEN ValidTextLine(input[j])
                     ELSE ValidScoreLine(input[j]))
             => (rep.ok /\ rep.checked = Len(input))

C17_Witness ==
    /\ tool = "text"
    /\ pc = "returned"
    /\ Len(input) = 2
    /\ Codes(rep.errors) = <<"CONTRACT", "GROUNDING_OFFSETS">>
    /\ rep.errors[1].path = "[1]"
    /\ rep.errors[2].path = "[2].source_ref"
    /\ rep.checked = 2

\* the fields of a score object for which SCORE_RANGE is due
BadScoreFields(obj) ==
    {k \in FieldSet :
        \/ obj.f[k].kind \in {"absent", "null"}
        \/ obj.f[k].kind = "num" /\ (obj.f[k].n < 0 \/ obj.f[k].n > 100)}

NumericScores(obj) == \A k \in FieldSet : obj.f[k].kind \in {"absent", "null", "num"}

\* C18: the turn of validate_scores_json on line i, a JSON object whose seven
\* fields are each missing, null or a number, appends one SCORE_RANGE issue with
\* path "[i].k" for every field k that is missing, null or outside [0, 100],
\* and nothing else, each field on its own; checked is incremented whatever
\* the issues.
C18_ScoreRangePerField ==
    [][(tool = "scores" /\ idx' = idx + 1 /\ input[idx + 1].kind = "json"
            /\ input[idx + 1].obj.is_dict /\ NumericScores(input[idx + 1].obj)) =>
          /\ KeepsIssues
          /\ \A n \in 1..Len(NewIssues) : NewIssues[n].code = "SCORE_RANGE"
          /\ Len(NewIssues) = Cardinality(BadScoreFields(input[idx + 1].obj))
          /\ \A k \in FieldSet :
                 (k \in BadScoreFields(input[idx + 1].obj))
                 <=> (\E n \in 1..Len(NewIssues) :
                         NewIssues[n].path = "[" \o ToString(idx + 1) \o "]." \o k)
          /\ rep'.checked = rep.checked + 1
          /\ pc' = "loop"]_vars

C18_Witness ==
    /\ tool = "scores"
    /\ pc = "returned"
    /\ Len(input) = 2
    /\ input[1].obj = ScoreObj({"total"}, [kind |-> "null", n |-> 0])
    /\ input[2].obj = ScoreObj({"clarity"}, [kind |-> "absent", n |-> 0])
    /\ rep.errors = <<ValidationIssue("SCORE_RANGE", "total must be 0..100", "[1].total"),
                      ValidationIssue("SCORE_RANGE", "clarity must be 0..100", "[2].clarity")>>
    /\ rep.checked = 2

\* C19: the turn of validate_text_jsonl on line i, an object the TextSegment
\* schema accepts, appends a GROUNDING_OFFSETS issue with path "[i].source_ref"
\* iff source_ref.start >= source_ref.end: start = end and start 5, end 2 are
\* reported, start 0, end 2 is not.
C19_GroundingOffsets ==
    [][(tool = "text" /\ idx' = idx + 1 /\ input[idx + 1].kind = "json"
            /\ SchemaAccepts(input[idx + 1].obj)) =>
          /\ KeepsIssues
          /\ NewIssues
                 = IF input[idx + 1].obj.start >= input[idx + 1].obj.end
                   THEN <<ValidationIssue("GROUNDING_OFFSETS", "start >= end",
                                          "[" \o ToString(idx + 1) \o "].source_ref")>>
                   ELSE <<>>]_vars

C19_Witness ==
    /\ tool = "text"
    /\ idx = 2
    /\ input[1].obj.start = 0 /\ input[1].obj.end = 2
    /\ input[2].obj.start = 2 /\ input[2].obj.end = 2
    /\ rep.errors = <<ValidationIssue("GROUNDING_OFFSETS", "start >= end", "[2].source_ref")>>
    /\ rep.checked = 2

\* the issues recorded with the given code and path
IssuesAt(code, path) ==
    {n \in 1..Len(rep.errors) : rep.errors[n].code = code /\ rep.errors[n].path = path}

\* a line taken by validate_text_jsonl that is an object with well-formed
\* fields but without a boolean labels.is_dialogue
LacksIsDialogue(j) ==
    /\ input[j].kind = "json"
    /\ input[j].obj.is_dict /\ input[j].obj.fields_ok
    /\ input[j].obj.is_dialogue \in {"absent", "null"}

\* C24 as claimed: a text-segment line that violates the TextSegment schema
\* (labels.is_dialogue missing or null) and has source_ref.start >=
\* source_ref.end gets a GROUNDING_OFFSETS issue besides the issue for the
\* schema violation.
C24_GroundingCheckedDespiteSchema ==
    (tool = "text" /\ pc \in {"loop", "returned"}) =>
        \A j \in 1..idx :
            (LacksIsDialogue(j) /\ input[j].obj.start >= input[j].obj.end) =>
                /\ IssuesAt("GROUNDING_OFFSETS", "[" \o ToString(j) \o "].source_ref") # {}
                /\ \E n \in 1..Len(rep.errors) :
                       /\ rep.errors[n].code # "GROUNDING_OFFSETS"
                       /\ rep.errors[n].path \in {"[" \o ToString(j) \o "]",
                                                  "[" \o ToString(j) \o "].labels.is_dialogue"}

\* C25 as claimed: a text-segment line i that parses and whose
\* labels.is_dialogue is absent or null gets a LABEL_MISSING issue at
\* "[i].labels.is_dialogue".
C25_LabelMissingReported ==
    (tool = "text" /\ pc \in {"loop", "returned"}) =>
        \A j \in 1..idx :
            LacksIsDialogue(j) =>
                IssuesAt("LABEL_MISSING", "[" \o ToString(j) \o "].labels.is_dialogue") # {}

\* C28 as claimed: validate_scores_json, validate_text_jsonl and
\* lint_tts_manifest never raise because of the content of a record: a run
\* goes on past a bad record to every later one and returns a report.
C28_NeverRaises ==
    (tool \in {"scores", "text", "lint"}) =>
        /\ pc \notin {"raised", "exited_after_raise"}
        /\ pc \in {"returned", "exited"} => idx = Len(input)

\* the issues of the report whose code is one of cs
Skipped(cs) == Cardinality({n \in 1..Len(rep.errors) : rep.errors[n].code \in cs})

NonBlank == Cardinality({j \in 1..idx : input[j].kind # "blank"})

\* C29: every record taken is accounted for once, as counted or as skipped:
\* in validate_audio_dataset the number of CSV rows is checked plus the number
\* of CSV_FIELD, MISSING_WAV and WAV_READ issues; in validate_text_jsonl and
\* validate_scores_json the number of non-blank lines is checked plus the
\* number of JSON_DECODE or JSON issues; so it is when the validator returns.
C29_RecordsAccountedFor ==
    /\ (tool = "audio" /\ pc \in {"loop", "returned"}) =>
           idx = rep.checked + Skipped({"CSV_FIELD", "MISSING_WAV", "WAV_READ"})
    /\ (tool \in {"text", "scores"} /\ pc \in {"loop", "returned"}) =>
           NonBlank = rep.checked + Skipped({"JSON_DECODE", "JSON"})
    /\ (tool \in {"audio", "text", "scores"} /\ pc = "returned") => idx = Len(input)

C29_Witness ==
    /\ tool = "text"
    /\ pc = "returned"
    /\ Len(input) = 2
    /\ input[1].kind = "blank"
    /\ input[2].kind = "invalid"
    /\ rep.checked = 0
    /\ Len(rep.errors) = 1
    /\ rep.errors[1].code = "JSON_DECODE"

----------------------------------------------------------------------------
(* Properties of validate_profile_json_str, under Spec. *)

\* digits.digits.digits and nothing else
HasSemverForm(v) ==
    \E i, j \in 1..Len(v) :
        /\ 1 < i /\ i + 1 < j /\ j < Len(v)
        /\ v[i] = "." /\ v[j] = "."
        /\ \A n \in (1..Len(v)) \ {i, j} : v[n] \in {"0", "1", "2", "3"}

\* the three fields of a profile object, defaults filled in
VersionOf(obj) == IF obj.version.some THEN obj.version.v ELSE DefaultVersion

RegistersOf(obj) ==
    IF obj.register_defaults.some THEN obj.register_defaults.v ELSE DefaultRegisters

ChainOf(obj) == IF obj.fallback_chain.some THEN obj.fallback_chain.v ELSE <<>>

WeightsSumToOne(w) == SumSeq(w) - 10000000 \in -9..9

\* C20: for a profile object with the required fields and the right types,
\* validate_profile_json_str returns True iff version has the form
\* digits.digits.digits, the register_defaults weights sum to 1.0 within 1e-6
\* and the dialect is not in its own fallback_chain; otherwise it raises.
C20_ProfileAcceptedIffThreeHold ==
    (tool = "profile" /\ pc \in {"returned", "raised"}
        /\ input.kind = "json" /\ input.obj.is_dict /\ input.obj.required_ok) =>
        ((pc = "returned")
            <=> /\ HasSemverForm(VersionOf(input.obj))
                /\ WeightsSumToOne(RegistersOf(input.obj))
                /\ input.obj.dialect \notin Range(ChainOf(input.obj)))

----------------------------------------------------------------------------
(* Properties of the command lines of the format guardians, under Spec. *)

CliDone == tool \in {"audio", "text", "scores", "profile"}
               /\ pc \in {"exited", "exited_after_raise"}

\* the issues the validation of the run recorded: the errors of the report,
\* and for a profile the errors of the ValidationError
RecordedIssues ==
    IF tool # "profile" THEN rep.errors
    ELSE IF input.kind = "json" /\ input.obj.is_dict /\ ~LanguageProfileV1(input.obj)
    THEN ProfileErrors(input.obj)
    ELSE <<>>

OkLines ==
    {"OK: " \o ToString(n) \o " " \o noun \o " validated" :
        n \in 0..(MaxCsvRows + MaxLines), noun \in {"rows", "segments", "scores"}}
    \cup {"OK: profile.json"}

\* C21 as claimed: each validator command (audio, text, scores, profile) exits
\* with 0 after a single "OK: ..." line when validation recorded no issue, and
\* otherwise exits with 1 after one "[CODE] message @ path" line on stderr for
\* each recorded issue, in the order recorded.
C21_CliExitProtocol ==
    CliDone =>
        IF pc = "exited" /\ RecordedIssues = <<>>
        THEN /\ exit.code = 0
             /\ Len(exit.stdout) = 1 /\ exit.stdout[1] \in OkLines
             /\ exit.stderr = <<>>
        ELSE /\ exit.code = 1
             /\ exit.stdout = <<>>
             /\ RecordedIssues # <<>> =>
                    exit.stderr
                        = [n \in 1..Len(RecordedIssues) |->
                              "[" \o RecordedIssues[n].code \o "] "
                                  \o RecordedIssues[n].message \o " @ "
                                  \o RecordedIssues[n].path]

====
